---- MODULE Spec2Model ----
(***************************************************************************)
(* Model of src/main.py: EnhancedPDFOutlineExtractor.process_pdf and the   *)
(* batch loop process_all_pdfs.                                            *)
(*                                                                         *)
(* A text is a sequence of one-character strings.  Font sizes are integer  *)
(* point sizes; a comparison with baseline * 1.x is done on tenths         *)
(* (10 * size against 1x * baseline).  For the sizes of FontSizes this     *)
(* agrees with the float arithmetic of the source.  Confidence is kept in  *)
(* tenths as well (0.3 -> 3).                                              *)
(***************************************************************************)
EXTENDS Integers, Sequences, FiniteSets, TLC

(***************************************************************************)
(* Characters and Python's str / re primitives                             *)
(***************************************************************************)
Digits == {"0", "1", "2", "3", "4", "5", "6", "7", "8", "9"}

UpperCase == {"A", "B", "C", "D", "E", "F", "G", "H", "I", "J", "K", "L", "M",
              "N", "O", "P", "Q", "R", "S", "T", "U", "V", "W", "X", "Y", "Z"}

LowerCase == {"a", "b", "c", "d", "e", "f", "g", "h", "i", "j", "k", "l", "m",
              "n", "o", "p", "q", "r", "s", "t", "u", "v", "w", "x", "y", "z"}

Letters == UpperCase \cup LowerCase

\* what str.strip() removes and what \s matches
Whitespace == {" ", "\t", "\n", "\r", "\f"}

\* "^A" and "DEL" stand for U+0001 and U+007F: characters of the class
\* [\x00-\x08\x0B\x0C\x0E-\x1F\x7F] that _clean_text deletes
ControlChars == {"^A", "DEL", "\f"}

\* "U+2022" stands for the bullet character, "(c)" for the copyright sign
BulletChars == {"U+2022", "-", "*"}

ToLower == [c \in UpperCase |->
   CASE c = "A" -> "a" [] c = "B" -> "b" [] c = "C" -> "c" [] c = "D" -> "d"
     [] c = "E" -> "e" [] c = "F" -> "f" [] c = "G" -> "g" [] c = "H" -> "h"
     [] c = "I" -> "i" [] c = "J" -> "j" [] c = "K" -> "k" [] c = "L" -> "l"
     [] c = "M" -> "m" [] c = "N" -> "n" [] c = "O" -> "o" [] c = "P" -> "p"
     [] c = "Q" -> "q" [] c = "R" -> "r" [] c = "S" -> "s" [] c = "T" -> "t"
     [] c = "U" -> "u" [] c = "V" -> "v" [] c = "W" -> "w" [] c = "X" -> "x"
     [] c = "Y" -> "y" [] c = "Z" -> "z"]

\* str.lower()
lower(s) == [i \in 1..Len(s) |-> IF s[i] \in UpperCase THEN ToLower[s[i]] ELSE s[i]]

\* the first index from i upwards that holds no whitespace
RECURSIVE SkipLeft(_, _)
SkipLeft(s, i) == IF i <= Len(s) /\ s[i] \in Whitespace THEN SkipLeft(s, i + 1) ELSE i

\* the last index from i downwards that holds no whitespace
RECURSIVE SkipRight(_, _)
SkipRight(s, i) == IF i >= 1 /\ s[i] \in Whitespace THEN SkipRight(s, i - 1) ELSE i

\* str.strip()
strip(s) == SubSeq(s, SkipLeft(s, 1), SkipRight(s, Len(s)))

\* str.isupper(): at least one cased character and no lowercase one
isupper(s) ==
   /\ \E i \in 1..Len(s) : s[i] \in UpperCase
   /\ \A i \in 1..Len(s) : s[i] \notin LowerCase

\* the test `a in b` on two strings
contains(b, a) ==
   LET n == Len(a)
   IN  \E i \in 1..(Len(b) - n + 1) : \A k \in 1..n : b[i + k - 1] = a[k]

\* re.sub(r'\s+', ' ', s): every maximal run of whitespace becomes one space
RECURSIVE collapse_ws(_, _)
collapse_ws(s, i) ==
   IF i > Len(s) THEN <<>>
   ELSE IF s[i] \notin Whitespace THEN <<s[i]>> \o collapse_ws(s, i + 1)
   ELSE IF i > 1 /\ s[i - 1] \in Whitespace THEN collapse_ws(s, i + 1)
   ELSE <<" ">> \o collapse_ws(s, i + 1)

NotControl(c) == c \notin ControlChars

(***************************************************************************)
(* Regular expressions, as the set of positions a match can have reached.  *)
(* A position p means: the characters before index p are consumed.  A      *)
(* pattern matches when the set after its last element is not empty.       *)
(***************************************************************************)
\* the end of the run of characters of the class X that starts at index i
RECURSIVE RunEnd(_, _, _)
RunEnd(t, i, X) == IF i <= Len(t) /\ t[i] \in X THEN RunEnd(t, i + 1, X) ELSE i

\* X+ for a character class X
RePlus(t, P, X) == UNION {(i + 1)..RunEnd(t, i, X) : i \in P}

\* X* for a character class X
ReStar(t, P, X) == P \cup RePlus(t, P, X)

\* one character of the class X
ReOne(t, P, X) == {i + 1 : i \in {p \in P : p <= Len(t) /\ t[p] \in X}}

\* X? for a character class X
ReOpt(t, P, X) == P \cup ReOne(t, P, X)

\* a literal word, compared ignoring case when ic is TRUE
ReWord(t, P, w, ic) ==
   {i + Len(w) : i \in {p \in P :
       /\ p + Len(w) - 1 <= Len(t)
       /\ LET part == SubSeq(t, p, p + Len(w) - 1)
          IN  IF ic THEN lower(part) = lower(w) ELSE part = w}}

\* $ : the end of the text, or just before a final newline
ReEnd(t, P) ==
   \/ (Len(t) + 1) \in P
   \/ Len(t) >= 1 /\ t[Len(t)] = "\n" /\ Len(t) \in P

\* every character that is not whitespace (\S), over the model's alphabet
NonSpace(t) == {t[i] : i \in 1..Len(t)} \ Whitespace

(***************************************************************************)
(* _matches_heading_patterns (re.match with re.IGNORECASE: [A-Z] and [a-z] *)
(* both match every letter)                                                *)
(***************************************************************************)
\* ^\d+\.?\s+[A-Z]
pattern_numbered(t) ==
   ReOne(t, RePlus(t, ReOpt(t, RePlus(t, {1}, Digits), {"."}), Whitespace), Letters) # {}

\* ^\d+\.\d+\.?\s+
pattern_subnumbered(t) ==
   RePlus(t, ReOpt(t, RePlus(t, ReOne(t, RePlus(t, {1}, Digits), {"."}), Digits), {"."}),
          Whitespace) # {}

\* ^(Chapter|Section|Part)\s+\d+
pattern_keyword(t) ==
   RePlus(t, RePlus(t, ReWord(t, {1}, <<"C", "h", "a", "p", "t", "e", "r">>, TRUE) \cup ReWord(t,
         {1}, <<"S", "e", "c", "t", "i", "o", "n">>, TRUE)
                          \cup ReWord(t, {1}, <<"P", "a", "r", "t">>, TRUE), Whitespace),
                                Digits) # {}

\* ^[A-Z][A-Z\s]{2,}$
pattern_allcaps(t) ==
   LET X == Letters \cup Whitespace
   IN  ReEnd(t, ReStar(t, ReOne(t, ReOne(t, ReOne(t, {1}, Letters), X), X), X))

\* one more round of the group (\s+[A-Z][a-z]*)
TitleCaseGroup(t, P) == ReStar(t, ReOne(t, RePlus(t, P, Whitespace), Letters), Letters)

RECURSIVE TitleCaseGroups(_, _)
\* Q is P and the positions one more round reaches
TitleCaseFixpoint(t, P, Q) == IF Q = P THEN P ELSE TitleCaseGroups(t, Q)

\* (\s+[A-Z][a-z]*)* : the positions reachable by any number of rounds
TitleCaseGroups(t, P) == TitleCaseFixpoint(t, P, P \cup TitleCaseGroup(t, P))

\* ^[A-Z][a-z]+(\s+[A-Z][a-z]*)*$
pattern_titlecase(t) ==
   ReEnd(t, TitleCaseGroups(t, RePlus(t, ReOne(t, {1}, Letters), Letters)))

SectionNames == {<<"A", "b", "s", "t", "r", "a", "c", "t">>, <<"I", "n", "t", "r", "o", "d", "u",
      "c", "t", "i", "o", "n">>, <<"C", "o", "n", "c", "l", "u", "s", "i", "o", "n">>, <<"R",
      "e", "f", "e", "r", "e", "n", "c", "e", "s">>,
                 <<"B", "i", "b", "l", "i", "o", "g", "r", "a", "p", "h", "y">>, <<"A", "c", "k",
                       "n", "o", "w", "l", "e", "d", "g", "m", "e", "n", "t">>}

\* ^(Abstract|Introduction|Conclusion|References|Bibliography|Acknowledgments?)$
pattern_section(t) ==
   ReEnd(t, UNION {ReWord(t, {1}, w, TRUE) : w \in SectionNames}
               \cup ReOpt(t, ReWord(t, {1}, <<"A", "c", "k", "n", "o", "w", "l", "e", "d", "g",
                     "m", "e", "n", "t">>, TRUE), {"s", "S"}))

\* any(re.match(pattern, ...)) on the stripped text
matches_any_pattern(t) ==
   \/ pattern_numbered(t)
   \/ pattern_subnumbered(t)
   \/ pattern_keyword(t)
   \/ pattern_allcaps(t)
   \/ pattern_titlecase(t)
   \/ pattern_section(t)

_matches_heading_patterns(text) == matches_any_pattern(strip(text))

(***************************************************************************)
(* _clean_text                                                             *)
(***************************************************************************)
\* the utf-8 encode/decode round trip of the source drops only lone
\* surrogates, which the alphabet of the model does not have
_clean_text(text) == SelectSeq(collapse_ws(strip(text), 1), NotControl)

(***************************************************************************)
(* Documents, as the collaborator (fitz) hands them over.                  *)
(*   span  : [text, size, flags, bbox]     bbox = <<x0, y0, x1, y1>>       *)
(*   line  : [spans]                                                       *)
(*   block : [type |-> 0, lines] for text, [type |-> 1] for an image       *)
(*   page  : [blocks]                                                      *)
(*   file  : [kind, pages, toc]            toc entries are <<lvl, label,   *)
(*           page>>; kind "ok", "corrupt" (get_text raises) or             *)
(*           "unopenable" (fitz.open raises)                               *)
(***************************************************************************)
BoldBit == 16

DefaultFontSize == 12

SamplePages == 3

Min(a, b) == IF a <= b THEN a ELSE b

Max(a, b) == IF a >= b THEN a ELSE b

\* flags & (1 << 4)
is_bold(flags) == (flags \div BoldBit) % 2 = 1

\* a | b on the flag bits the model uses (bit 4 and the bits below it)
BitOr(a, b) ==
   LET bit(x, k) == (x \div k) % 2
       or(k) == IF bit(a, k) = 1 \/ bit(b, k) = 1 THEN k ELSE 0
   IN  or(1) + or(2) + or(4) + or(8) + or(16)

RECURSIVE FlattenSeq(_)
FlattenSeq(ss) == IF ss = <<>> THEN <<>> ELSE Head(ss) \o FlattenSeq(Tail(ss))

\* the lines of a page in the order the loops over blocks and lines visit them
PageLines(page) ==
   FlattenSeq([i \in 1..Len(page.blocks) |->
      IF "lines" \in DOMAIN page.blocks[i] THEN page.blocks[i].lines ELSE <<>>])

\* line 247
nonempty(span) == strip(span.text) # <<>>

\* the spans of a line whose stripped text is not empty
TextSpans(line) == SelectSeq(line.spans, nonempty)

\* line_text += text + " " over the spans, then strip(); the same text as
\* " ".join(...) builds in _has_content_after_heading
RECURSIVE JoinSpans(_)
JoinSpans(spans) ==
   IF spans = <<>> THEN <<>>
   ELSE IF Len(spans) = 1 THEN strip(spans[1].text)
   ELSE strip(spans[1].text) \o <<" ">> \o JoinSpans(Tail(spans))

RECURSIVE MaxSize(_)
MaxSize(spans) == IF spans = <<>> THEN 0 ELSE Max(spans[1].size, MaxSize(Tail(spans)))

RECURSIVE OrFlags(_)
OrFlags(spans) == IF spans = <<>> THEN 0 ELSE BitOr(spans[1].flags, OrFlags(Tail(spans)))

(***************************************************************************)
(* _analyze_document_fonts                                                 *)
(***************************************************************************)
\* line 78, for the spans of one line
SpanSizes(spans) == [k \in 1..Len(spans) |-> spans[k].size]

\* the sizes of the non-empty spans of the first min(3, len(doc)) pages
SampledSizes(pages) ==
   FlattenSeq([p \in 1..Min(SamplePages, Len(pages)) |->
      FlattenSeq([l \in 1..Len(PageLines(pages[p])) |->
         SpanSizes(TextSpans(PageLines(pages[p])[l]))])])

Count(sizes, v) == Cardinality({i \in 1..Len(sizes) : sizes[i] = v})

\* Counter(font_sizes).most_common(1)[0][0]: the most frequent size, the one
\* seen first among equally frequent ones; 12 for no sizes at all
MostCommon(sizes) ==
   IF sizes = <<>> THEN DefaultFontSize
   ELSE LET values == {sizes[i] : i \in 1..Len(sizes)}
            count == [v \in values |-> Count(sizes, v)]
            best == {i \in 1..Len(sizes) : \A w \in values : count[w] <= count[sizes[i]]}
        IN  sizes[CHOOSE i \in best : \A j \in best : i <= j]

(***************************************************************************)
(* _calculate_confidence, _is_heading_candidate, _determine_heading_level  *)
(***************************************************************************)
\* in tenths of a point: baseline * 1.4, * 1.2, * 1.1
_calculate_size_thresholds(common_font_size) ==
   LET baseline == IF common_font_size # 0 THEN common_font_size ELSE DefaultFontSize
   IN  [h1 |-> baseline * 14, h2 |-> baseline * 12, h3 |-> baseline * 11]

\* in tenths
_calculate_confidence(text, size, flags, common_font_size) ==
   Min((IF 10 * size > 13 * common_font_size THEN 3
        ELSE IF 10 * size > 11 * common_font_size THEN 2 ELSE 0)
       + (IF is_bold(flags) THEN 2 ELSE 0)
       + (IF _matches_heading_patterns(text) THEN 3 ELSE 0)
       + (IF 5 <= Len(text) /\ Len(text) <= 100 THEN 1 ELSE 0), 10)

NoLine == [text |-> <<>>]

\* lines 254-267, for the spans with text and the text they give
analyzed_line(spans, line_text, common_font_size) ==
   IF Len(line_text) < 2 THEN NoLine
   ELSE [text |-> line_text,
         size |-> MaxSize(spans),
         flags |-> OrFlags(spans),
         bbox |-> IF "bbox" \in DOMAIN spans[1] THEN spans[1].bbox ELSE <<0, 0, 0, 0>>,
         confidence |-> _calculate_confidence(line_text, MaxSize(spans), OrFlags(spans),
                                              common_font_size)]

\* lines 245-252, for the spans with text
analyzed_spans(spans, common_font_size) == analyzed_line(spans, JoinSpans(spans), common_font_size)

\* None (NoLine) for a line whose text is shorter than 2
_analyze_line(line, common_font_size) == analyzed_spans(TextSpans(line), common_font_size)

_is_heading_candidate(line_data, thresholds) ==
   /\ ~ (Len(line_data.text) > 200 \/ Len(line_data.text) < 3)
   /\ 10 * line_data.size >= thresholds.h3 \/ _matches_heading_patterns(line_data.text)
   /\ line_data.confidence > 4

\* ^\d+\.?\s+
level_pattern_h1(t) == RePlus(t, ReOpt(t, RePlus(t, {1}, Digits), {"."}), Whitespace) # {}

\* ^\d+\.\d+\.?\s+
level_pattern_h2(t) ==
   RePlus(t, ReOpt(t, RePlus(t, ReOne(t, RePlus(t, {1}, Digits), {"."}), Digits), {"."}),
          Whitespace) # {}

\* ^\d+\.\d+\.\d+\.?\s+
level_pattern_h3(t) ==
   RePlus(t, ReOpt(t, RePlus(t, ReOne(t, RePlus(t, ReOne(t, RePlus(t, {1}, Digits), {"."}),
          Digits), {"."}), Digits), {"."}), Whitespace) # {}

\* the loosened first pattern, ^\d+ : a numeral however it continues
determine_level_loose_h1(text, size, thresholds) ==
   LET t == strip(text)
   IN  IF RePlus(t, {1}, Digits) # {} THEN "H1"
       ELSE IF 10 * size >= thresholds.h1 THEN "H1"
       ELSE IF 10 * size >= thresholds.h2 THEN "H2"
       ELSE "H3"

\* lines 328-341 on the stripped text
level_of_stripped(t, size, thresholds) ==
   IF level_pattern_h1(t) THEN "H1"
   ELSE IF level_pattern_h2(t) THEN "H2"
   ELSE IF level_pattern_h3(t) THEN "H3"
   ELSE IF 10 * size >= thresholds.h1 THEN "H1"
   ELSE IF 10 * size >= thresholds.h2 THEN "H2"
   ELSE "H3"

\* called with line_data['text'] and line_data['size']
_determine_heading_level(text, size, thresholds) == level_of_stripped(strip(text), size, thresholds)

(***************************************************************************)
(* list.sort(key = ...) on a pair key: a stable sort                       *)
(***************************************************************************)
KeyLess(a, b) == a[1] < b[1] \/ (a[1] = b[1] /\ a[2] < b[2])

\* items sorted by keys[i] = <<k1, k2>>, equal keys keep their order
StableSort(items, keys) ==
   LET n == Len(items)
       rank(i) == 1 + Cardinality({j \in 1..n :
                         KeyLess(keys[j], keys[i]) \/ (keys[j] = keys[i] /\ j < i)})
   IN  [r \in 1..n |-> items[CHOOSE i \in 1..n : rank(i) = r]]

(***************************************************************************)
(* _extract_title_enhanced, _extract_title_from_text, _is_potential_title  *)
(***************************************************************************)
UnknownTitle == <<"U", "n", "k", "n", "o", "w", "n", " ", "T", "i", "t", "l", "e">>

ErrorTitle == <<"E", "r", "r", "o", "r">>

TocPrefixes == {<<"t", "a", "b", "l", "e", " ", "o", "f", " ", "c", "o", "n", "t", "e", "n", "t",
      "s">>, <<"c", "o", "n", "t", "e", "n", "t", "s">>, <<"t", "o", "c">>}

SkipWords == {<<"c", "o", "p", "y", "r", "i", "g", "h", "t">>, <<"v", "e", "r", "s", "i", "o",
      "n">>, <<"p", "a", "g", "e">>, <<"(c)">>, <<"c", "o", "n", "f", "i", "d", "e", "n", "t",
      "i", "a", "l">>,
              <<"d", "r", "a", "f", "t">>, <<"r", "e", "v", "i", "s", "i", "o", "n">>, <<"d",
                    "a", "t", "e">>, <<"a", "u", "t", "h", "o", "r">>}

\* float('inf'), the y_pos of a line without text
Infinity == 1000000

startswith(s, prefix) == Len(prefix) <= Len(s) /\ SubSeq(s, 1, Len(prefix)) = prefix

_is_potential_title(text, size, flags, common_font_size) ==
   IF text = <<>> \/ Len(text) < 3 \/ Len(text) > 150 THEN FALSE
   ELSE IF \E skip \in SkipWords : contains(lower(text), lower(skip)) THEN FALSE
   ELSE LET is_large == 10 * size > 12 * common_font_size
        IN  is_large \/ is_bold(flags)

RECURSIVE MinY(_)
MinY(spans) ==
   IF spans = <<>> THEN Infinity
   ELSE Min(IF "bbox" \in DOMAIN spans[1] THEN spans[1].bbox[2] ELSE 0, MinY(Tail(spans)))

\* lines 119-125, for the spans with text
candidate_of_spans(spans) ==
   [text |-> JoinSpans(spans), size |-> MaxSize(spans), y_pos |-> MinY(spans),
    flags |-> OrFlags(spans)]

\* the candidate a line of page one gives (text, size, y_pos)
TitleCandidate(line) == candidate_of_spans(TextSpans(line))

\* lines 129-134: the candidate is appended when it passes the test
candidate_if_title(c, common_font_size) ==
   IF _is_potential_title(c.text, c.size, c.flags, common_font_size) THEN <<c>> ELSE <<>>

\* the candidates of the lines of page one, in reading order
title_candidates(lines, common_font_size) ==
   FlattenSeq([l \in 1..Len(lines) |-> candidate_if_title(TitleCandidate(lines[l]), common_font_size)])

\* line 138: by size, largest first, then by position
sort_candidates(candidates) ==
   StableSort(candidates,
      [i \in 1..Len(candidates) |-> <<0 - candidates[i].size, candidates[i].y_pos>>])

\* lines 136-144
title_of_candidates(sorted) ==
   IF sorted = <<>> THEN UnknownTitle
   ELSE IF Len(sorted) = 1 THEN _clean_text(sorted[1].text)
   ELSE _clean_text(sorted[1].text \o <<" ", " ">> \o sorted[2].text)

_extract_title_from_text(pages, common_font_size) ==
   IF Len(pages) = 0 THEN UnknownTitle
   ELSE title_of_candidates(sort_candidates(title_candidates(PageLines(pages[1]),
                                                             common_font_size)))

\* lines 91-93, on the stripped label of the first bookmark
bookmark_title_ok(first_bookmark) ==
   /\ first_bookmark # <<>>
   /\ ~ \E p \in TocPrefixes : startswith(lower(first_bookmark), p)
   /\ Len(first_bookmark) > 3

_extract_title_enhanced(file, common_font_size) ==
   IF file.toc # <<>> /\ bookmark_title_ok(strip(file.toc[1][2]))
   THEN _clean_text(strip(file.toc[1][2]))
   ELSE _extract_title_from_text(file.pages, common_font_size)

(***************************************************************************)
(* _extract_page_headings                                                  *)
(***************************************************************************)
MetadataWords == {<<"o", "v", "e", "r", "v", "i", "e", "w">>, <<"v", "e", "r", "s", "i", "o",
      "n">>, <<"d", "a", "t", "e">>, <<"r", "e", "m", "a", "r", "k", "s">>, <<"i", "d", "e", "n",
      "t", "i", "f", "i", "e", "r">>,
                  <<"r", "e", "f", "e", "r", "e", "n", "c", "e">>}

Syllabus == <<"s", "y", "l", "l", "a", "b", "u", "s">>

\* the title test left out
is_title_line_never(text, extracted_title) == FALSE

\* line 215: text is the lowercased, stripped text of the line
is_title_line(text, extracted_title) == text = extracted_title

\* lines 226-232
new_heading(line_data, page_num, thresholds) ==
   [level |-> _determine_heading_level(line_data.text, line_data.size, thresholds),
    text |-> _clean_text(line_data.text),
    page |-> page_num,
    confidence |-> line_data.confidence,
    bbox |-> line_data.bbox]

\* lines 211-234 for a line with the data line_data and the lowered,
\* stripped text
step_on_text(headings, line_data, text, page_num, thresholds, extracted_title) ==
   IF text \in MetadataWords /\ page_num # 0 THEN headings
   ELSE IF is_title_line(text, extracted_title) THEN headings
   ELSE IF ~ _is_heading_candidate(line_data, thresholds) THEN headings
   ELSE IF headings # <<>> /\ text = Syllabus
        THEN [headings EXCEPT ![Len(headings)].text = @ \o <<" ">> \o line_data.text]
   ELSE Append(headings, new_heading(line_data, page_num, thresholds))

\* lines 205-208
step_on_line_data(headings, line_data, page_num, thresholds, extracted_title) ==
   IF line_data = NoLine THEN headings
   ELSE step_on_text(headings, line_data, strip(lower(line_data.text)), page_num, thresholds,
                     extracted_title)

\* one round of the loop over the lines of a page: headings is the list of
\* the page so far, prev is its last element
page_headings_step(headings, line, page_num, thresholds, common_font_size, extracted_title) ==
   step_on_line_data(headings, _analyze_line(line, common_font_size), page_num, thresholds,
                     extracted_title)

RECURSIVE page_headings_loop(_, _, _, _, _, _, _)
page_headings_loop(lines, k, headings, page_num, thresholds, common_font_size, extracted_title) ==
   IF k > Len(lines) THEN headings
   ELSE page_headings_loop(lines, k + 1,
           page_headings_step(headings, lines[k], page_num, thresholds, common_font_size,
                              extracted_title),
           page_num, thresholds, common_font_size, extracted_title)

\* page_num is 0-based
_extract_page_headings(page, page_num, thresholds, common_font_size, extracted_title) ==
   page_headings_loop(PageLines(page), 1, <<>>, page_num, thresholds, common_font_size,
                      extracted_title)

(***************************************************************************)
(* _post_process_headings                                                  *)
(***************************************************************************)
\* lines 417-424: the first heading of every (text, page) key
unique_headings(headings) ==
   LET first(i) == \A j \in 1..(i - 1) :
                      <<headings[j].text, headings[j].page>> # <<headings[i].text, headings[i].page>>
       keep == {i \in 1..Len(headings) : first(i)}
       nth(r) == CHOOSE i \in keep : Cardinality({j \in keep : j < i}) = r - 1
   IN  [r \in 1..Cardinality(keep) |-> headings[nth(r)]]

\* x.get('bbox', [0])[1] if x.get('bbox') else 0
sort_y(heading) == IF heading.bbox # <<>> THEN heading.bbox[2] ELSE 0

\* line 427
sort_headings(unique) ==
   StableSort(unique, [i \in 1..Len(unique) |-> <<unique[i].page, sort_y(unique[i])>>])

\* the duplicates left in
post_process_no_dedup(headings) == sort_headings(headings)

\* the sort left out
post_process_no_sort(headings) == unique_headings(headings)

_post_process_headings(headings) == sort_headings(unique_headings(headings))

(***************************************************************************)
(* _has_content_after_heading, _filter_headings_with_subtext               *)
(***************************************************************************)
NoHeading == [none |-> TRUE]

\* ^\s*[•\-\*]\s+\S+
pattern_bullet(t) ==
   RePlus(t, RePlus(t, ReOne(t, ReStar(t, {1}, Whitespace), BulletChars), Whitespace),
          NonSpace(t)) # {}

\* ^\s*\(?\d+[\.\)]\s+\S+
pattern_listitem(t) ==
   RePlus(t, RePlus(t, ReOne(t, RePlus(t, ReOpt(t, ReStar(t, {1}, Whitespace), {"("}), Digits),
          {".", ")"}), Whitespace), NonSpace(t)) # {}

\* lines 367-375: what counts as content
is_content_text(line_text) ==
   \/ Len(line_text) > 40 /\ ~ isupper(line_text)
   \/ pattern_bullet(line_text)
   \/ pattern_listitem(line_text)

\* the test for other headings (lines 363-365) left out
line_is_content_no_heading_skip(line, heading) ==
   LET line_text == JoinSpans(TextSpans(line))
   IN  /\ line_text # <<>>
       /\ ~ contains(lower(line_text), lower(heading.text))
       /\ is_content_text(line_text)

\* lines 356-375, for the text of one line
text_is_content(line_text, heading) ==
   /\ line_text # <<>>
   /\ ~ contains(lower(line_text), lower(heading.text))
   /\ ~ _matches_heading_patterns(line_text)
   /\ is_content_text(line_text)

\* lines 355-375, for one line
line_is_content(line, heading) == text_is_content(JoinSpans(TextSpans(line)), heading)

block_is_content(block, heading) ==
   IF "lines" \in DOMAIN block
   THEN \E l \in 1..Len(block.lines) : line_is_content(block.lines[l], heading)
   ELSE "type" \in DOMAIN block /\ block.type = 1

_has_content_after_heading(pages, heading, next_heading) ==
   LET start_page == heading.page
       end_page == IF next_heading # NoHeading THEN next_heading.page
                   ELSE Min(start_page + 1, Len(pages) - 1)
   IN  \E page_num \in start_page..end_page :
          \E b \in 1..Len(pages[page_num + 1].blocks) :
             block_is_content(pages[page_num + 1].blocks[b], heading)

\* int(level[1])
LevelNumber(level) == CASE level = "H1" -> 1 [] level = "H2" -> 2 [] level = "H3" -> 3

\* lines 390-396
has_children(headings, i) ==
   \E j \in (i + 1)..Len(headings) :
      /\ \A k \in (i + 1)..j : headings[k].page <= headings[i].page + 1
      /\ LevelNumber(headings[j].level) > LevelNumber(headings[i].level)

\* line 399
has_content(pages, headings, i) ==
   _has_content_after_heading(pages, headings[i],
      IF i + 1 <= Len(headings) THEN headings[i + 1] ELSE NoHeading)

\* the page number left 0-based
clean_heading_zero_based(heading) ==
   [level |-> heading.level, text |-> heading.text, page |-> heading.page]

\* lines 404-406
clean_heading(heading) ==
   [level |-> heading.level, text |-> heading.text, page |-> heading.page + 1]

\* the elements of keep in increasing order
in_order(keep) ==
   [r \in 1..Cardinality(keep) |-> CHOOSE i \in keep : Cardinality({j \in keep : j < i}) = r - 1]

\* the indices of the headings the filter keeps, in order
kept_indices(pages, headings) ==
   in_order({i \in 1..Len(headings) :
                has_children(headings, i) \/ has_content(pages, headings, i)})

\* the result list of the filter for the indices it keeps
filter_result(hs, indices) == [r \in 1..Len(indices) |-> clean_heading(hs[indices[r]])]

_filter_headings_with_subtext(pages, hs) == filter_result(hs, kept_indices(pages, hs))

(***************************************************************************)
(* _extract_headings_from_text                                             *)
(***************************************************************************)
\* lines 171-175: the headings of all pages, before post-processing
all_page_headings(pages, common_font_size, extracted_title) ==
   FlattenSeq([p \in 1..Len(pages) |->
      _extract_page_headings(pages[p], p - 1, _calculate_size_thresholds(common_font_size),
                             common_font_size, extracted_title)])

\* line 178: the headings after post-processing, 0-based pages and bbox kept
processed_headings(pages, common_font_size, extracted_title) ==
   _post_process_headings(all_page_headings(pages, common_font_size, extracted_title))

_extract_headings_from_text(pages, common_font_size, extracted_title) ==
   _filter_headings_with_subtext(pages,
      processed_headings(pages, common_font_size, extracted_title))

(***************************************************************************)
(* The files the model processes                                           *)
(***************************************************************************)
MaxPages == 2

MaxBlocks == 3

MaxCalls == 3

BatchBlocks == 1

\* the font sizes of the spans below; for these sizes the comparisons on
\* tenths give what the float comparisons of the source give
FontSizes == {12, 18, 24}

TextBlock(spans) == [type |-> 0, lines |-> <<[spans |-> spans]>>]

Span(text, size, flags, y) == [text |-> text, size |-> size, flags |-> flags,
                               bbox |-> <<72, y, 300, y + size>>]

IntroBlock == TextBlock(<<Span(<<"1", ".", " ", "I", "n", "t", "r", "o", "d", "u", "c", "t", "i",
      "o", "n">>, 18, BoldBit, 100)>>)

\* a prose line of 60 characters in two spans of body size
ProseBlock == TextBlock(<<Span(<<"T", "h", "i", "s", " ", "r", "e", "p", "o", "r", "t", " ", "e",
      "x", "p", "l", "a", "i", "n", "s", " ", "t", "h", "e", " ", "p", "l", "a", "n", ",">>, 12,
      0, 300),
                          Span(<<"a", "n", "d", " ", "i", "t", " ", "l", "i", "s", "t", "s", " ",
                                "a", "l", "l", " ", "o", "f", " ", "t", "h", "e", " ", "s", "t",
                                "e", "p", "s">>, 12, 0, 300)>>)

AppendixBlock == TextBlock(<<Span(<<"A", "p", "p", "e", "n", "d", "i", "x">>, 24, 0, 100)>>)

SubBlock == TextBlock(<<Span(<<"1", ".", "1", " ", "B", "a", "c", "k", "g", "r", "o", "u", "n",
      "d">>, 12, BoldBit, 200)>>)

LawBlock == TextBlock(<<Span(<<"L", "a", "w">>, 12, BoldBit, 150)>>)

SyllabusBlock == TextBlock(<<Span(<<"s", "y", "l", "l", "a", "b", "u", "s">>, 12, BoldBit, 250)>>)

ImageBlock == [type |-> 1]

BlockPool == {IntroBlock, ProseBlock, AppendixBlock, SubBlock, LawBlock, SyllabusBlock,
              ImageBlock}

TocPool == {<<>>, <<<<1, <<"A", " ", " ", "b">>, 1>>>>}

\* the sequences of exactly n blocks
BlockSeqs(n) == [1..n -> BlockPool]

\* the documents of exactly p pages, each with a block or more, and at most
\* b blocks in all
RECURSIVE PageSeqs(_, _)
PageSeqs(p, b) ==
   IF p = 0 THEN {<<>>}
   ELSE UNION {{<<[blocks |-> bl]>> \o rest : bl \in BlockSeqs(n), rest \in PageSeqs(p - 1, b - n)} :
                 n \in 1..b}

\* no page, one empty page, or up to maxPages pages with blocks
Documents(maxPages, maxBlocks) ==
   {<<[blocks |-> <<>>]>>} \cup UNION {PageSeqs(p, maxBlocks) : p \in 0..maxPages}

Unopenable == [kind |-> "unopenable", pages |-> <<>>, toc |-> <<>>]

\* a corrupt file fails at the first page read, whatever the page holds
CorruptFiles == {[kind |-> "corrupt", pages |-> d, toc |-> <<>>] : d \in Documents(1, 0)}

Files ==
   {[kind |-> "ok", pages |-> d, toc |-> t] : d \in Documents(MaxPages, MaxBlocks), t \in TocPool}
      \cup CorruptFiles \cup {Unopenable}

BatchFiles ==
   {[kind |-> "ok", pages |-> d, toc |-> <<>>] : d \in Documents(1, BatchBlocks)}
      \cup CorruptFiles \cup {Unopenable}

(***************************************************************************)
(* The extractor and the batch loop                                        *)
(***************************************************************************)
VARIABLES
   pdf_files,         \* the files process_all_pdfs has still to process
   doc,               \* self.doc: 0 for None, else the index of a handle
   handles,           \* the fitz documents opened so far: [is_closed, page_count]
   font_sizes,        \* self.font_sizes
   common_font_size,  \* self.common_font_size, 0 for None
   extracted_title,   \* self.extracted_title
   pdf,               \* the file of the current call of process_pdf
   result,            \* what that call gave: [kind |-> "return", title, outline],
                      \* [kind |-> "raise"], or [kind |-> "none"] outside a call
   headings,          \* the local list of _extract_headings_from_text after line 178
   kept,              \* the indices of headings that pass the test of line 402
   saved,             \* the number of JSON files written by process_all_pdfs
   level_input,       \* a line handed to _determine_heading_level on its own
   level_output       \* the level it gave, "none" before the call

vars == <<pdf_files, doc, handles, font_sizes, common_font_size, extracted_title, pdf, result,
          headings, kept, saved, level_input, level_output>>

NoFile == [kind |-> "none", pages |-> <<>>, toc |-> <<>>]

Sentinel == [kind |-> "return", title |-> ErrorTitle, outline |-> <<>>]

\* a new extractor (lines 25-31)
InitExtractor ==
   /\ doc = 0
   /\ handles = <<>>
   /\ font_sizes = <<>>
   /\ common_font_size = 0
   /\ extracted_title = <<>>
   /\ pdf = NoFile
   /\ result = [kind |-> "none"]
   /\ headings = <<>>
   /\ kept = <<>>
   /\ saved = 0

NoLevelInput == [parts |-> <<>>, dot |-> FALSE, word |-> <<>>, size |-> 0, baseline |-> 0]

\* a directory with one file
Init ==
   /\ InitExtractor
   /\ pdf_files \in {<<file>> : file \in Files}
   /\ level_input = NoLevelInput
   /\ level_output = "none"

\* a directory with up to MaxCalls files
InitBatch ==
   /\ InitExtractor
   /\ pdf_files \in UNION {[1..n -> BatchFiles] : n \in 1..MaxCalls}
   /\ level_input = NoLevelInput
   /\ level_output = "none"

\* lines 49-54, with the values of lines 178 and 181
with_headings(sizes, common, title, hs, indices) ==
   [font_sizes |-> sizes, common_font_size |-> common, title |-> title,
    headings |-> hs, kept |-> indices, outline |-> filter_result(hs, indices)]

\* lines 46-49
with_title(file, sizes, common, title, hs) ==
   with_headings(sizes, common, title, hs, kept_indices(file.pages, hs))

\* line 45
with_baseline(file, sizes, common, title) ==
   with_title(file, sizes, common, title,
              processed_headings(file.pages, common, strip(lower(title))))

\* lines 80-81
with_sizes(file, sizes, common) ==
   with_baseline(file, sizes, common, _extract_title_enhanced(file, common))

\* line 42
with_fonts(file, sizes) == with_sizes(file, sizes, MostCommon(sizes))

\* lines 42-54 on an opened file: the title and the outline
analysis(file) == with_fonts(file, SampledSizes(file.pages))

\* page.get_text raises on the first page read
analysis_fails(file) == file.kind = "corrupt" /\ Len(file.pages) > 0

\* `if self.doc:` and self.doc.close() in the finally block.  A fitz
\* Document has __len__ and no __bool__; len() and close() of a closed
\* Document raise ValueError.  "raise", "close" or "skip".
finally_step(d, hs) ==
   IF d = 0 THEN "skip"
   ELSE IF hs[d].is_closed THEN "raise"
   ELSE IF hs[d].page_count > 0 THEN "close"
   ELSE "skip"

\* the fields and the value returned when lines 42-54 end normally
on_success(a) ==
   [font_sizes |-> a.font_sizes, common_font_size |-> a.common_font_size,
    extracted_title |-> strip(lower(a.title)), headings |-> a.headings, kept |-> a.kept,
    result |-> [kind |-> "return", title |-> a.title, outline |-> a.outline]]

\* the values of lines 42-54, or the fields as they are when the try
\* block is left by an exception
analysis_or_failure(file) ==
   IF file.kind = "unopenable" \/ analysis_fails(file)
   THEN [font_sizes |-> font_sizes, common_font_size |-> common_font_size,
         extracted_title |-> extracted_title, headings |-> <<>>, kept |-> <<>>,
         result |-> Sentinel]
   ELSE on_success(analysis(file))

process_pdf(file) ==
   LET opened == file.kind # "unopenable"
       hs == IF opened THEN Append(handles, [is_closed |-> FALSE, page_count |-> Len(file.pages)])
             ELSE handles
       d == IF opened THEN Len(hs) ELSE doc
       fin == finally_step(d, hs)
   IN  \E a \in {analysis_or_failure(file)} :
          /\ pdf' = file
          /\ doc' = d
          /\ handles' = IF fin = "close" THEN [hs EXCEPT ![d].is_closed = TRUE] ELSE hs
          /\ font_sizes' = a.font_sizes
          /\ common_font_size' = a.common_font_size
          /\ extracted_title' = a.extracted_title
          /\ headings' = a.headings
          /\ kept' = a.kept
          /\ result' = IF fin = "raise" THEN [kind |-> "raise"] ELSE a.result

\* line 467, in the loop of process_all_pdfs
ProcessNext ==
   /\ pdf_files # <<>>
   /\ result.kind = "none"
   /\ process_pdf(Head(pdf_files))
   /\ pdf_files' = Tail(pdf_files)
   /\ UNCHANGED <<saved, level_input, level_output>>

\* lines 470-478: the result is written and the loop goes on
SaveOutput ==
   /\ result.kind = "return"
   /\ saved' = saved + 1
   /\ result' = [kind |-> "none"]
   /\ pdf' = NoFile
   /\ headings' = <<>>
   /\ kept' = <<>>
   /\ UNCHANGED <<pdf_files, doc, handles, font_sizes, common_font_size, extracted_title,
                  level_input, level_output>>

\* lines 480-481: the exception is logged and the loop goes on
LogError ==
   /\ result.kind = "raise"
   /\ result' = [kind |-> "none"]
   /\ pdf' = NoFile
   /\ headings' = <<>>
   /\ kept' = <<>>
   /\ UNCHANGED <<pdf_files, doc, handles, font_sizes, common_font_size, extracted_title, saved,
                  level_input, level_output>>

\* with one file in the directory no call can raise
Next == ProcessNext \/ SaveOutput

Spec == Init /\ [][Next]_vars

NextBatch == ProcessNext \/ SaveOutput \/ LogError

SpecBatch == InitBatch /\ [][NextBatch]_vars

(***************************************************************************)
(* _determine_heading_level on its own: numbered lines of every depth,     *)
(* font size and baseline                                                  *)
(***************************************************************************)
MaxDepth == 4

Numerals == {<<"1">>, <<"2">>, <<"3">>, <<"1", "2">>}

HeadingWords == {<<"F", "o", "o">>, <<"B", "a", "c", "k", "g", "r", "o", "u", "n", "d">>, <<"I",
      "n", "t", "r", "o", "d", "u", "c", "t", "i", "o", "n">>}

\* the numerals joined by "."
RECURSIVE JoinParts(_)
JoinParts(parts) ==
   IF parts = <<>> THEN <<>>
   ELSE IF Len(parts) = 1 THEN parts[1]
   ELSE parts[1] \o <<".">> \o JoinParts(Tail(parts))

\* "2.3.1 Foo" for parts <<2, 3, 1>>, "2.3.1. Foo" with the dot; the bare
\* word for no parts
LevelText(in) ==
   IF in.parts = <<>> THEN in.word
   ELSE JoinParts(in.parts) \o (IF in.dot THEN <<".">> ELSE <<>>) \o <<" ">> \o in.word

LevelInputs ==
   {[parts |-> p, dot |-> d, word |-> w, size |-> s, baseline |-> b] :
      p \in UNION {[1..n -> Numerals] : n \in 0..MaxDepth}, d \in BOOLEAN,
      w \in HeadingWords, s \in FontSizes, b \in FontSizes}

InitLevel ==
   /\ InitExtractor
   /\ pdf_files = <<>>
   /\ level_input \in LevelInputs
   /\ level_output = "none"

\* line 224 for the line of level_input
DetermineLevel ==
   /\ level_output = "none"
   /\ level_input # NoLevelInput
   /\ level_output' = _determine_heading_level(LevelText(level_input), level_input.size,
                                               _calculate_size_thresholds(level_input.baseline))
   /\ UNCHANGED <<pdf_files, doc, handles, font_sizes, common_font_size, extracted_title, pdf,
                  result, headings, kept, saved, level_input>>

SpecLevel == InitLevel /\ [][DetermineLevel]_vars

(***************************************************************************)
(* Properties                                                              *)
(***************************************************************************)
Returned == result.kind = "return"

Opened == pdf.kind \in {"ok", "corrupt"}

\* the text of a line as both scans build it
LineText(line) == JoinSpans(TextSpans(line))

\* r-th entry of the outline comes from this heading
Origin(r) == headings[kept[r]]

\* C1: every page number of a returned outline is at least 1, and it is the
\* 0-based page index of the heading it was built from plus one: the
\* conversion is applied once, to the headings the content filter retains.
C1_PageOneBased ==
   Returned =>
      /\ Len(result.outline) = Len(kept)
      /\ \A r \in 1..Len(result.outline) :
            /\ result.outline[r].page >= 1
            /\ result.outline[r].page = Origin(r).page + 1
            /\ result.outline[r].page \in 1..Len(pdf.pages)

\* a retained heading found on the first page (index 0) is reported on page 1
C1_Witness ==
   /\ Returned
   /\ \E r \in 1..Len(result.outline) : Origin(r).page = 0 /\ result.outline[r].page = 1
   /\ \E r \in 1..Len(result.outline) : Origin(r).page = 1 /\ result.outline[r].page = 2

\* the example of the spec: one page, the bold 18-point line
\* "1. Introduction", then a 60-character paragraph at 12 points, no
\* bookmarks
ExampleFile ==
   [kind |-> "ok", pages |-> <<[blocks |-> <<IntroBlock, ProseBlock>>]>>, toc |-> <<>>]

IntroText == <<"1", ".", " ", "I", "n", "t", "r", "o", "d", "u", "c", "t", "i", "o", "n">>

\* C2 as stated: the example yields the title "Unknown Title" and the
\* outline [H1 "1. Introduction" page 1].
C2_Original ==
   (Returned /\ pdf = ExampleFile) =>
      /\ result.title = UnknownTitle
      /\ result.outline = <<[level |-> "H1", text |-> IntroText, page |-> 1]>>

\* C2, amended: on the example the baseline is 12, the bold line is taken as
\* the title, so the title is "1. Introduction", and the same line is then
\* left out of the outline, which is empty.
C2_Amended ==
   (Returned /\ pdf = ExampleFile) =>
      /\ common_font_size = 12
      /\ result.title = IntroText
      /\ result.outline = <<>>

C2_Witness ==
   /\ Returned
   /\ pdf = ExampleFile
   /\ Len(LineText(ProseBlock.lines[1])) = 60
   /\ extracted_title = lower(IntroText)

\* C3: in any sequence of extraction calls, a call on a file that cannot be
\* opened or that fails during analysis ends with the sentinel result
\* (title "Error", empty outline), never with an exception.
C3_SentinelOnFailure ==
   (result.kind # "none" /\ (pdf.kind = "unopenable" \/ analysis_fails(pdf))) =>
      result = Sentinel

\* C4: whenever a call has ended, the handle it opened is closed, on the
\* success path, on the failure path and for a document of zero pages.
C4_HandleClosed ==
   (result.kind # "none" /\ Opened) => handles[doc].is_closed

\* C5: no two entries of a returned outline have the same text and page.
C5_NoDuplicates ==
   Returned =>
      \A r, t \in 1..Len(result.outline) :
         (result.outline[r].text = result.outline[t].text
            /\ result.outline[r].page = result.outline[t].page) => r = t

\* the page scan found the same (text, page) twice and the outline holds it
\* once
C5_Witness ==
   /\ Returned
   /\ LET raw == all_page_headings(pdf.pages, common_font_size, extracted_title)
      IN  \E i, j \in 1..Len(raw) :
             /\ i < j
             /\ raw[i].text = raw[j].text
             /\ raw[i].page = raw[j].page
             /\ \E r \in 1..Len(result.outline) :
                   /\ result.outline[r].text = raw[i].text
                   /\ result.outline[r].page = raw[i].page + 1

\* the heading was built from a line of its page, whose bounding box it has
HasOriginLine(h) ==
   /\ h.page + 1 \in 1..Len(pdf.pages)
   /\ \E l \in 1..Len(PageLines(pdf.pages[h.page + 1])) :
         _analyze_line(PageLines(pdf.pages[h.page + 1])[l], common_font_size).bbox = h.bbox

\* C6: the entries of a returned outline are in non-decreasing order of
\* page and, on one page, of the top y of the line they come from; the
\* content filter removes entries and keeps the order of the rest.
C6_Ordered ==
   Returned =>
      /\ \A r \in 1..Len(kept) : HasOriginLine(Origin(r))
      /\ \A r, t \in 1..Len(kept) :
            r < t =>
               /\ kept[r] < kept[t]
               /\ result.outline[r].page <= result.outline[t].page
               /\ Origin(r).page = Origin(t).page => Origin(r).bbox[2] <= Origin(t).bbox[2]

\* the page scan found two headings of one page in the other order, and
\* both are in the outline
C6_Witness ==
   /\ Returned
   /\ LET raw == all_page_headings(pdf.pages, common_font_size, extracted_title)
      IN  \E i, j \in 1..Len(raw) :
             /\ i < j
             /\ raw[i].page = raw[j].page
             /\ raw[i].bbox[2] > raw[j].bbox[2]
             /\ \E r, t \in 1..Len(kept) :
                   r < t /\ Origin(r) = raw[j] /\ Origin(t) = raw[i]

\* C7: a title other than "Unknown Title" has more than 3 characters.
C7_TitleLongerThanThree ==
   (Returned /\ pdf.kind = "ok" /\ result.title # UnknownTitle) => Len(result.title) > 3

\* C8: a line that starts with a numbering of depth 1, 2 or 3 followed by
\* space and a word gets the level H1, H2 or H3 of that depth, whatever its
\* font size and the baseline: "1.1 Background" is H2, "2.3.1 Foo" is H3.
C8_NumberingDepth ==
   (level_output # "none" /\ Len(level_input.parts) \in 1..3) =>
      level_output = <<"H1", "H2", "H3">>[Len(level_input.parts)]

\* "2.3.1 Foo" at twice the baseline, where the size alone says H1
C8_Witness ==
   /\ level_output = "H3"
   /\ LevelText(level_input) = <<"2", ".", "3", ".", "1", " ", "F", "o", "o">>
   /\ level_input.size = 24
   /\ level_input.baseline = 12
   /\ level_input.size * 10 >= _calculate_size_thresholds(level_input.baseline).h1

AppendixText == <<"A", "p", "p", "e", "n", "d", "i", "x">>

\* the lines of pages p, p + 1, ...
RECURSIVE LinesFrom(_, _)
LinesFrom(pages, p) ==
   IF p > Len(pages) THEN <<>> ELSE PageLines(pages[p]) \o LinesFrom(pages, p + 1)

\* on page p the line "Appendix", at twice the baseline, is followed by one
\* last line of the document, which matches a heading pattern; nothing on
\* page p or after is content: no image block, only heading-pattern lines
C9_ScenarioAt(p) ==
   /\ Returned
   /\ pdf.kind = "ok"
   /\ p \in 1..Len(pdf.pages)
   /\ \A q \in p..Len(pdf.pages) :
         \A b \in 1..Len(pdf.pages[q].blocks) : "lines" \in DOMAIN pdf.pages[q].blocks[b]
   /\ LET lines == LinesFrom(pdf.pages, p)
          n == Len(lines) - 1
      IN  /\ n \in 1..Len(PageLines(pdf.pages[p]))
          /\ LineText(lines[n]) = AppendixText
          /\ MaxSize(TextSpans(lines[n])) = 2 * common_font_size
          /\ \A m \in 1..Len(lines) : _matches_heading_patterns(LineText(lines[m]))

AppendixInOutline(p) ==
   \E r \in 1..Len(result.outline) :
      result.outline[r].text = AppendixText /\ result.outline[r].page = p

\* a heading of deeper level comes after "Appendix" of page p in the sorted
\* list, on that page or the next
DeeperHeadingFollows(p) ==
   \E i \in 1..Len(headings) :
      /\ headings[i].text = AppendixText
      /\ headings[i].page = p - 1
      /\ \E j \in (i + 1)..Len(headings) :
            /\ headings[j].page <= p
            /\ LevelNumber(headings[j].level) > LevelNumber(headings[i].level)

\* C9 as stated: in the scenario "Appendix" is absent from the outline,
\* whatever the level of the line that follows.
C9_Original == \A p \in 1..Len(pdf.pages) : C9_ScenarioAt(p) => ~ AppendixInOutline(p)

\* C9, amended: in the scenario "Appendix" is in the outline exactly when
\* a heading of deeper level (H2 or H3 under an H1) comes after it in the
\* sorted heading list on its page or the next; the heading-pattern line
\* that follows never counts as content, but as a deeper heading it keeps
\* "Appendix".
C9_Amended ==
   \A p \in 1..Len(pdf.pages) :
      C9_ScenarioAt(p) => (AppendixInOutline(p) <=> DeeperHeadingFollows(p))

\* "Appendix" was accepted as a heading, another accepted heading follows
\* it, and the filter removed it
C9_Witness ==
   \E p \in 1..Len(pdf.pages) :
      /\ C9_ScenarioAt(p)
      /\ \E i \in 1..(Len(headings) - 1) :
            /\ headings[i].text = AppendixText
            /\ headings[i].page = p - 1
            /\ headings[i].level = "H1"
      /\ ~ AppendixInOutline(p)

\* C10: no entry of a returned outline has a text that equals the title
\* when case is ignored, the texts extended by the syllabus rule included.
C10_TitleNotInOutline ==
   Returned =>
      \A r \in 1..Len(result.outline) :
         strip(lower(result.outline[r].text)) # strip(lower(result.title))

\* the block of its page the heading h was built from: the first one with a
\* line that has the bounding box of h and a text h begins with
OriginBlock(h) ==
   LET blocks == pdf.pages[h.page + 1].blocks
       from(b) == /\ "lines" \in DOMAIN blocks[b]
                  /\ \E l \in 1..Len(blocks[b].lines) :
                        /\ _analyze_line(blocks[b].lines[l], common_font_size) # NoLine
                        /\ _analyze_line(blocks[b].lines[l], common_font_size).bbox = h.bbox
                        /\ startswith(h.text, _clean_text(LineText(blocks[b].lines[l])))
   IN  CHOOSE b \in 1..Len(blocks) : from(b) /\ \A c \in 1..(b - 1) : ~ from(c)

\* after the i-th heading of the sorted list, in document order, there is a
\* prose line, a list line or an image block, on its page or on a later
\* page of its scan window, or a deeper heading within the next page
MaterialAfter(i) ==
   LET h == headings[i]
       end_page == IF i + 1 <= Len(headings) THEN headings[i + 1].page
                   ELSE Min(h.page + 1, Len(pdf.pages) - 1)
   IN  \/ \E b \in (OriginBlock(h) + 1)..Len(pdf.pages[h.page + 1].blocks) :
             block_is_content(pdf.pages[h.page + 1].blocks[b], h)
       \/ \E q \in (h.page + 1)..end_page :
             \E b \in 1..Len(pdf.pages[q + 1].blocks) :
                block_is_content(pdf.pages[q + 1].blocks[b], h)
       \/ has_children(headings, i)

\* C11: every heading of a returned outline has substantive material after
\* it in document order: a prose line, a list line or an image block later
\* on its page or on a later page of its scan window, or a later heading
\* of deeper level within the next page; material before the heading on
\* its page does not keep it.
C11_MaterialAfterHeading ==
   Returned => \A r \in 1..Len(kept) : MaterialAfter(kept[r])

====
